---- MODULE Spec2Model ----
(***************************************************************************)
(* Lazy cached sequences (lazyseq.py), the lazy sieve of primes            *)
(* (primes.py) and the Fermi-Dirac powers (potencias.py).                  *)
(*                                                                         *)
(* A sequence object is a record [cache, it]: the list of the values       *)
(* obtained so far and the frame of the iterator that produces the rest.   *)
(* The three objects of the program live in one record W ("the heap"),     *)
(* indexed by name, because an iterator of one object may read and force   *)
(* another one (potencias iterates over primes, the sieve reads its own    *)
(* cache).  Python indices are kept: Nth(c, i) is c[i].                    *)
(***************************************************************************)
EXTENDS Integers, Sequences, FiniteSets, TLC

VARIABLES
    primes,     \* the module-level object primes = Primes()
    seq,        \* a LazySortedSequence built over a caller's iterator
    potencias,  \* the module-level object potencias
    ret,        \* the last call: operation, arguments, outcome, object before
    iters       \* the frames of the iterators the program holds open

vars == <<primes, seq, potencias, ret, iters>>

(***************************************************************************)
(* Bounds of the model.                                                    *)
(***************************************************************************)
MaxIdx == 4        \* largest index asked of the caller's sequence
MaxVal == 5        \* largest value searched in the caller's sequence
MaxLen == 3        \* length of the explicit prefix of the caller's iterator
MaxPre == 2        \* largest value in that prefix
MaxPrimeIdx == 16  \* largest index asked of primes
MaxPrimeVal == 50  \* largest value searched in primes
MaxN == 60         \* largest number tested for primality
MaxPotIdx == 16    \* largest index asked of potencias
MaxPotVal == 30    \* largest value searched in potencias

INFINITE == 2147483647  \* sys.maxsize (of a build with 32-bit Py_ssize_t)

(***************************************************************************)
(* Python built-ins used by the code.                                      *)
(***************************************************************************)
Nth(c, i) == c[i + 1]

Size(o) == Len(o.cache)

Last(o) == o.cache[Len(o.cache)]

\* math.isqrt
isqrt(n) == CHOOSE r \in 0..n : r * r <= n /\ (r + 1) * (r + 1) > n

RECURSIVE Pow(_, _)
Pow(b, e) == IF e = 0 THEN 1 ELSE b * Pow(b, e - 1)

\* bisect.bisect_left(a, x): the loop of the library, lo and hi in Python indices
RECURSIVE BisectLoop(_, _, _, _)
BisectLoop(a, x, lo, hi) ==
    IF lo < hi
    THEN LET mid == (lo + hi) \div 2
         IN  IF Nth(a, mid) < x
             THEN BisectLoop(a, x, mid + 1, hi)
             ELSE BisectLoop(a, x, lo, mid)
    ELSE lo

\* mutant: the insertion point after the values equal to x (bisect_right)
RECURSIVE BisectRightLoop(_, _, _, _)
BisectRightLoop(a, x, lo, hi) ==
    IF lo < hi
    THEN LET mid == (lo + hi) \div 2
         IN  IF Nth(a, mid) <= x
             THEN BisectRightLoop(a, x, mid + 1, hi)
             ELSE BisectRightLoop(a, x, lo, mid)
    ELSE lo

bisect_right(a, x) == BisectRightLoop(a, x, 0, Len(a))

bisect_left(a, x) == BisectLoop(a, x, 0, Len(a))

\* islice(c, lo, hi) over a list: the elements at Python indices lo .. hi-1
isliceList(c, lo, hi) ==
    LET top == IF hi < Len(c) THEN hi ELSE Len(c)
    IN  { Nth(c, j) : j \in lo..(top - 1) }

\* the outcome of a step of an iterator or of a method
Outcome(err, val, W) == [err |-> err, val |-> val, W |-> W]

(***************************************************************************)
(* The caller's iterator: the values of pre, then either exhaustion or     *)
(* the consecutive integers that follow the last of them.                  *)
(***************************************************************************)
TailBase(it) == IF Len(it.pre) = 0 THEN 0 ELSE it.pre[Len(it.pre)] + 1

ListNext(W) ==
    LET it == W.seq.it
    IN  IF it.pos < Len(it.pre)
        THEN Outcome("", Nth(it.pre, it.pos), [W EXCEPT !.seq.it.pos = @ + 1])
        ELSE IF it.inf
             THEN Outcome("", TailBase(it) + (it.pos - Len(it.pre)),
                          [W EXCEPT !.seq.it.pos = @ + 1])
             ELSE Outcome("StopIteration", 0, W)

(***************************************************************************)
(* Primes.__genprimes: the frame of the generator is (pc, top, stop, n);   *)
(* it reads the cache of primes as it is when the generator is resumed.    *)
(***************************************************************************)
\* mutant: the divisors are taken from index 2, so that 3 is never tried
HasDivisorFromIndexTwo(c, top, n) == \E p \in isliceList(c, 2, top) : n % p = 0

\* mutant: the divisors stop one short of top
HasDivisorShortWindow(c, top, n) == \E p \in isliceList(c, 1, top - 1) : n % p = 0

\* for p in islice(_primes, 1, top): if n % p == 0: break
HasDivisor(c, top, n) == \E p \in isliceList(c, 1, top) : n % p = 0

RECURSIVE GenScan(_, _, _, _)
GenScan(W, top, stop, n) ==
    LET c == W.primes.cache
    IN  IF n >= stop
        THEN \* start = stop + 2; top += 1; stop = _primes[top] ** 2
             IF top + 1 >= Len(c)
             THEN Outcome("IndexError", 0, W)
             ELSE GenScan(W, top + 1, Nth(c, top + 1) * Nth(c, top + 1), stop + 2)
        ELSE IF HasDivisor(c, top, n)
             THEN GenScan(W, top, stop, n + 2)
             ELSE Outcome("", n,
                     [W EXCEPT !.primes.it =
                         [pc |-> "yield", top |-> top, stop |-> stop, n |-> n]])

GenPrimesNext(W) ==
    LET g == W.primes.it
        c == W.primes.cache
    IN  IF g.pc = "start"
        THEN IF g.top >= Len(c)
             THEN Outcome("IndexError", 0, W)
             ELSE GenScan(W, g.top, Nth(c, g.top) * Nth(c, g.top), g.n)
        ELSE GenScan(W, g.top, g.stop, g.n + 2)

(***************************************************************************)
(* next(self.iterator) depends on the object; it is defined after the      *)
(* iterators, of which the one of potencias itself indexes primes.         *)
(***************************************************************************)
RECURSIVE IterNext(_, _)

(***************************************************************************)
(* LazySequence                                                            *)
(***************************************************************************)
\* mutant: the new value is put in front of the list
CacheAppendFront(r, s) ==
    IF r.err = ""
    THEN Outcome("", r.val, [r.W EXCEPT ![s].cache = <<r.val>> \o @])
    ELSE r

\* mutant: a value is appended even when the iterator gave none
CacheAppendAlways(r, s) ==
    Outcome(r.err, r.val, [r.W EXCEPT ![s].cache = Append(@, r.val)])

\* self._cache.append(x) of the value r that the iterator gave
CacheAppend(r, s) ==
    IF r.err = ""
    THEN Outcome("", r.val, [r.W EXCEPT ![s].cache = Append(@, r.val)])
    ELSE r

\* __next__
LazyNext(W, s) == CacheAppend(IterNext(W, s), s)

\* self._cache.extend(islice(self.iterator, k)): the list grows value by value,
\* and islice ends quietly when the iterator is exhausted
RECURSIVE Extend(_, _, _)
ExtendWith(r, s, k) ==
    IF r.err = "StopIteration"
    THEN Outcome("", 0, r.W)
    ELSE IF r.err # ""
         THEN r
         ELSE Extend(CacheAppend(r, s).W, s, k - 1)

Extend(W, s, k) ==
    IF k <= 0 THEN Outcome("", 0, W) ELSE ExtendWith(IterNext(W, s), s, k)

\* return self._cache[idx], after the extension e
CacheItem(e, s, idx) ==
    IF e.err # ""
    THEN e
    ELSE IF idx < Size(e.W[s])
         THEN Outcome("", Nth(e.W[s].cache, idx), e.W)
         ELSE Outcome("IndexError", 0, e.W)

\* mutant: one value more than needed is taken from the iterator
GetItemIntEager(W, s, idx) ==
    IF idx < 0
    THEN Outcome("OverflowError", 0, W)
    ELSE IF idx >= Size(W[s])
         THEN CacheItem(Extend(W, s, idx - Size(W[s]) + 2), s, idx)
         ELSE CacheItem(Outcome("", 0, W), s, idx)

\* mutant: no test of the sign, a negative index reads the list from its end
GetItemIntNoGuard(W, s, idx) ==
    IF idx >= Size(W[s])
    THEN CacheItem(Extend(W, s, idx - Size(W[s]) + 1), s, idx)
    ELSE IF idx < 0 - Size(W[s])
         THEN Outcome("IndexError", 0, W)
         ELSE Outcome("", Nth(W[s].cache, IF idx < 0 THEN idx + Size(W[s]) ELSE idx), W)

\* mutant: no test of the size, idx + 1 values are taken at every call
GetItemIntAlwaysExtend(W, s, idx) ==
    IF idx < 0
    THEN Outcome("OverflowError", 0, W)
    ELSE CacheItem(Extend(W, s, idx + 1), s, idx)

\* __getitem_int__
GetItemInt(W, s, idx) ==
    IF idx < 0
    THEN Outcome("OverflowError", 0, W)
    ELSE IF idx >= Size(W[s])
         THEN CacheItem(Extend(W, s, idx - Size(W[s]) + 1), s, idx)
         ELSE CacheItem(Outcome("", 0, W), s, idx)

\* __iter__: a generator over the object s.  Its frame f holds ph (1 in
\* "yield from self._cache", 2 in the generator expression over self[i]) and
\* i (the index of the list iterator, then the next value of the range);
\* f.open and f.n are history: the size of the cache when the iterator was
\* opened and the number of values it has yielded
NewIter(W, s) == [ph |-> 1, i |-> 0, open |-> Size(W[s]), n |-> 0]

\* mutant: the cached part is the list as it was when the iterator was opened
IterInSnapshot(W, s, f) == f.ph = 1 /\ f.i < f.open

\* the list iterator of "yield from self._cache" reads the list as it is now
IterInCache(W, s, f) == f.ph = 1 /\ f.i < Size(W[s])

\* range(len(self._cache), INFINITE), evaluated when the list iterator ends
IterFrom(W, s, f) == IF f.ph = 1 THEN Size(W[s]) ELSE f.i

\* yield self[i]
IterSelfItem(r, f, i) ==
    IF r.err # ""
    THEN r
    ELSE Outcome("", [val |-> r.val,
                      frame |-> [f EXCEPT !.ph = 2, !.i = i + 1, !.n = @ + 1]],
                 r.W)

\* next() of the generator: the value and the frame it is left in
LazyIterNext(W, s, f) ==
    IF IterInCache(W, s, f)
    THEN Outcome("", [val |-> Nth(W[s].cache, f.i),
                      frame |-> [f EXCEPT !.i = @ + 1, !.n = @ + 1]], W)
    ELSE IterSelfItem(GetItemInt(W, s, IterFrom(W, s, f)), f, IterFrom(W, s, f))

\* the first m values of a fresh iterator, taken one after the other
RECURSIVE IterTake(_, _, _, _, _)
IterTakeThen(r, s, m, acc) ==
    IF r.err # ""
    THEN r
    ELSE IterTake(r.W, s, r.val.frame, m - 1, Append(acc, r.val.val))

IterTake(W, s, f, m, acc) ==
    IF m <= 0
    THEN Outcome("", acc, W)
    ELSE IterTakeThen(LazyIterNext(W, s, f), s, m, acc)

\* range(INFINITE)[sl], for a step >= 1: slice.indices(INFINITE) clamps both ends
NoneArg == <<>>

SliceStart(a) ==
    IF a = NoneArg THEN 0
    ELSE IF a[1] < 0
         THEN (IF a[1] + INFINITE < 0 THEN 0 ELSE a[1] + INFINITE)
         ELSE (IF a[1] > INFINITE THEN INFINITE ELSE a[1])

\* mutant: the element at stop is included
SliceStopInclusive(b) ==
    IF b = NoneArg THEN INFINITE
    ELSE IF b[1] < 0
         THEN (IF b[1] + INFINITE < 0 THEN 0 ELSE b[1] + INFINITE)
         ELSE (IF b[1] >= INFINITE THEN INFINITE ELSE b[1] + 1)

SliceStop(b) ==
    IF b = NoneArg THEN INFINITE
    ELSE IF b[1] < 0
         THEN (IF b[1] + INFINITE < 0 THEN 0 ELSE b[1] + INFINITE)
         ELSE (IF b[1] > INFINITE THEN INFINITE ELSE b[1])

SliceStep(c) == IF c = NoneArg THEN 1 ELSE c[1]

\* [self[i] for i in rng]
RECURSIVE SliceLoop(_, _, _, _, _, _)
SliceCollect(r, s, i, hi, step, acc) ==
    IF r.err # ""
    THEN Outcome(r.err, <<>>, r.W)
    ELSE SliceLoop(r.W, s, i + step, hi, step, Append(acc, r.val))

SliceLoop(W, s, i, hi, step, acc) ==
    IF i >= hi
    THEN Outcome("", acc, W)
    ELSE SliceCollect(GetItemInt(W, s, i), s, i, hi, step, acc)

\* __getitem_slice__
GetItemSlice(W, s, a, b, c) ==
    SliceLoop(W, s, SliceStart(a), SliceStop(b), SliceStep(c), <<>>)

(***************************************************************************)
(* LazySortedSequence                                                      *)
(***************************************************************************)
\* while x > next(self): pass;  idx = self.size - 1
RECURSIVE ForceUntil(_, _, _)
\* mutant: while x >= next(self), one value past the first one >= x
ForceTestPast(r, s, x) ==
    IF r.err # ""
    THEN r
    ELSE IF x >= r.val
         THEN ForceUntil(r.W, s, x)
         ELSE Outcome("", Size(r.W[s]) - 1, r.W)

ForceTest(r, s, x) ==
    IF r.err # ""
    THEN r
    ELSE IF x > r.val
         THEN ForceUntil(r.W, s, x)
         ELSE Outcome("", Size(r.W[s]) - 1, r.W)

ForceUntil(W, s, x) == ForceTest(LazyNext(W, s), s, x)

\* mutant: a value equal to the last cached one is searched by forcing
insertposStrict(W, s, x) ==
    IF Size(W[s]) > 0 /\ x < Last(W[s])
    THEN Outcome("", bisect_left(W[s].cache, x), W)
    ELSE ForceUntil(W, s, x)

insertpos(W, s, x) ==
    IF Size(W[s]) > 0 /\ x <= Last(W[s])
    THEN Outcome("", bisect_left(W[s].cache, x), W)
    ELSE ForceUntil(W, s, x)

\* return x == self._cache[idx]
IsAt(r, s, x) ==
    IF r.err # "" THEN r ELSE Outcome("", x = Nth(r.W[s].cache, r.val), r.W)

\* LazySortedSequence.__contains__
SortedContains(W, s, x) == IsAt(insertpos(W, s, x), s, x)

\* self.__class__.__name__
ClassName(s) == IF s = "primes" THEN "Primes" ELSE "LazySortedSequence"

\* mutant: the insertion point is returned whatever the value found there
IndexNoRaise(r, s, x) == r

\* if x == self._cache[idx]: return idx
\* raise ValueError(f"{x} is not in {self.__class__.__name__}")
IndexOrRaise(r, s, x) ==
    IF r.err # ""
    THEN r
    ELSE IF x = Nth(r.W[s].cache, r.val)
         THEN r
         ELSE Outcome("ValueError", <<x, ClassName(s)>>, r.W)

index(W, s, x) == IndexOrRaise(insertpos(W, s, x), s, x)

(***************************************************************************)
(* Primes.__contains__                                                     *)
(***************************************************************************)
\* the two any(...) over the cached primes below top and over the odd
\* numbers of range(self.last + 2, root + 1, 2)
TrialDivision(t, n, root) ==
    IF t.err # ""
    THEN t
    ELSE IF \E p \in isliceList(t.W.primes.cache, 1, t.val) : n % p = 0
         THEN Outcome("", FALSE, t.W)
         ELSE IF \E i \in (Last(t.W.primes) + 2)..root :
                     (i - (Last(t.W.primes) + 2)) % 2 = 0 /\ n % i = 0
              THEN Outcome("", FALSE, t.W)
              ELSE Outcome("", TRUE, t.W)

\* mutant: top = self.insertpos(root) always, which forces when root > last
DivisorTopBySearch(W, root) == insertpos(W, "primes", root)

\* top = self.size if root > self.last else self.insertpos(root)
DivisorTop(W, root) ==
    IF root > Last(W.primes)
    THEN Outcome("", Size(W.primes), W)
    ELSE insertpos(W, "primes", root)

PrimesContains(W, n) ==
    IF n <= Last(W.primes)
    THEN SortedContains(W, "primes", n)
    ELSE TrialDivision(DivisorTop(W, isqrt(n)), n, isqrt(n))

(***************************************************************************)
(* potencias.py.  The iterator of potencias is flat(mkiter(k) for k in     *)
(* count()): a chain of generator frames, one per started level.  Frame    *)
(* number k + 1 holds flat's s1 = mkiter(k), that is the position (ph, i)  *)
(* of its iteration over primes, and the x and y of the join of that       *)
(* level.  A level that is not in the list has not been started.           *)
(***************************************************************************)
\* LazySequence.__iter__ over primes: the cached values (the list is read as
\* it is at each step), then self[i] from the length the cache has by then
IterIndex(W, lv) ==
    IF W.potencias.it[lv].ph = 1 THEN Size(W.primes) ELSE W.potencias.it[lv].i

IterForced(r, lv, i) ==
    IF r.err # ""
    THEN r
    ELSE Outcome("", r.val,
            [r.W EXCEPT !.potencias.it[lv].ph = 2, !.potencias.it[lv].i = i + 1])

PrimesIterNext(W, lv) ==
    IF W.potencias.it[lv].ph = 1 /\ W.potencias.it[lv].i < Size(W.primes)
    THEN Outcome("", Nth(W.primes.cache, W.potencias.it[lv].i),
                 [W EXCEPT !.potencias.it[lv].i = @ + 1])
    ELSE IterForced(GetItemInt(W, "primes", IterIndex(W, lv)), lv, IterIndex(W, lv))

\* mutant: the exponent is k + 1 instead of 2 ** k
PowerLinear(r, k) ==
    IF r.err # "" THEN r ELSE Outcome("", Pow(r.val, k + 1), r.W)

\* p ** 2 ** k
Power(r, k) ==
    IF r.err # "" THEN r ELSE Outcome("", Pow(r.val, Pow(2, k)), r.W)

\* mkiter(k): p ** 2 ** k for p in primes
mkiter(W, lv) == Power(PrimesIterNext(W, lv), lv - 1)

\* x = next(s1)
JoinX(r, lv) ==
    IF r.err # "" THEN r
    ELSE Outcome("", r.val, [r.W EXCEPT !.potencias.it[lv].x = r.val])

\* y = next(s2)
JoinY(r, lv) ==
    IF r.err # "" THEN r
    ELSE Outcome("", r.val, [r.W EXCEPT !.potencias.it[lv].y = r.val])

\* if x <= y: yield x  else: yield y
JoinYield(b, lv) ==
    IF b.err # ""
    THEN b
    ELSE IF b.W.potencias.it[lv].x <= b.W.potencias.it[lv].y
         THEN Outcome("", b.W.potencias.it[lv].x,
                      [b.W EXCEPT !.potencias.it[lv].pc = "yx"])
         ELSE Outcome("", b.W.potencias.it[lv].y,
                      [b.W EXCEPT !.potencias.it[lv].pc = "yy"])

\* join resumed: x is read at its start and after a yield of x
ReadX(W, lv) ==
    IF W.potencias.it[lv].pc = "yy"
    THEN Outcome("", 0, W)
    ELSE JoinX(mkiter(W, lv), lv)

NewLevel == [pc |-> "first", ph |-> 1, i |-> 0, x |-> 0, y |-> 0]

\* next() of the flat generator of level lv (and of the join it delegates to)
RECURSIVE flat(_, _)
\* join resumed: y is read at its start and after a yield of y
ReadY(a, lv) ==
    IF a.err # ""
    THEN a
    ELSE IF a.W.potencias.it[lv].pc = "yx"
         THEN a
         ELSE JoinY(flat(a.W, lv + 1), lv)

\* mutant: the level after the new one is instantiated along with it
flatTwoLevels(W, lv) ==
    IF lv > Len(W.potencias.it)
    THEN mkiter([W EXCEPT !.potencias.it = Append(Append(@, NewLevel), NewLevel)], lv)
    ELSE JoinYield(ReadY(ReadX(W, lv), lv), lv)

flat(W, lv) ==
    IF lv > Len(W.potencias.it)
    THEN \* s1 = next(it); yield next(s1)
         mkiter([W EXCEPT !.potencias.it = Append(@, NewLevel)], lv)
    ELSE \* yield from join(s1, flat(it))
         JoinYield(ReadY(ReadX(W, lv), lv), lv)

IterNext(W, s) ==
    CASE s = "primes" -> GenPrimesNext(W)
      [] s = "seq" -> ListNext(W)
      [] s = "potencias" -> flat(W, 1)

(***************************************************************************)
(* The objects after construction.                                         *)
(***************************************************************************)
\* Primes.__init__: the generator is created, then the cache is seeded
PrimesInit ==
    [cache |-> <<2, 3>>,
     it |-> [pc |-> "start", top |-> 1, stop |-> 0, n |-> 5]]

\* non-decreasing lists of at most MaxLen values of 0..MaxPre
Prefixes ==
    { p \in UNION { [1..k -> 0..MaxPre] : k \in 0..MaxLen } :
        \A i \in 1..(Len(p) - 1) : p[i] <= p[i + 1] }

\* LazySequence.__init__
SeqInit(pre, inf) ==
    [cache |-> <<>>, it |-> [pre |-> pre, inf |-> inf, pos |-> 0]]

PotInit == [cache |-> <<>>, it |-> <<>>]

World == [primes |-> primes, seq |-> seq, potencias |-> potencias]

Call(op, args, r, pre) ==
    [op |-> op, args |-> args, err |-> r.err, val |-> r.val, pre |-> pre]

NoCall == [op |-> "init", args |-> <<>>, err |-> "", val |-> 0, pre |-> <<>>]

\* a call on one of the objects: the heap after it and the record of the call
Do(s, op, args, r) ==
    /\ primes' = r.W.primes
    /\ seq' = r.W.seq
    /\ potencias' = r.W.potencias
    /\ ret' = Call(op, args, r, World[s])
    /\ iters' = iters

(***************************************************************************)
(* The program that uses primes.                                           *)
(***************************************************************************)
InitPrimes ==
    /\ primes = PrimesInit
    /\ seq = SeqInit(<<>>, TRUE)
    /\ potencias = PotInit
    /\ ret = NoCall
    /\ iters = <<>>

PrimesNext == Do("primes", "next", <<>>, LazyNext(World, "primes"))

PrimesAt ==
    \E i \in (0 - 2)..MaxPrimeIdx :
        Do("primes", "at", <<i>>, GetItemInt(World, "primes", i))

PrimesInsertPos ==
    \E x \in 0..MaxPrimeVal :
        Do("primes", "insertpos", <<x>>, insertpos(World, "primes", x))

PrimesIndex ==
    \E x \in 0..MaxPrimeVal :
        Do("primes", "index", <<x>>, index(World, "primes", x))

PrimesIsPrime ==
    \E n \in 0..MaxN :
        Do("primes", "contains", <<n>>, PrimesContains(World, n))

\* for p in primes, left after m values (no other call in between)
PrimesIterate ==
    \E m \in 1..(MaxPrimeIdx + 1) :
        Do("primes", "iterate", <<m>>,
           IterTake(World, "primes", NewIter(World, "primes"), m, <<>>))

NextPrimes ==
    \/ (Size(primes) <= MaxPrimeIdx /\ PrimesNext)
    \/ PrimesAt
    \/ PrimesInsertPos
    \/ PrimesIndex
    \/ PrimesIsPrime
    \/ PrimesIterate

SpecPrimes == InitPrimes /\ [][NextPrimes]_vars

(***************************************************************************)
(* The program that holds iterators open on primes, and advances them      *)
(* between other calls on primes.                                          *)
(***************************************************************************)
MaxIters == 2      \* iterators open at the same time
MaxIterPos == 3    \* largest index asked of primes, by a call or an iterator
MaxIterVal == 7    \* largest value searched in primes

InitIter ==
    /\ primes = PrimesInit
    /\ seq = SeqInit(<<>>, TRUE)
    /\ potencias = PotInit
    /\ ret = NoCall
    /\ iters = <<>>

\* iter(primes): the generator is created, nothing of it runs
SharedOpen ==
    /\ Len(iters) < MaxIters
    /\ iters' = Append(iters, NewIter(World, "primes"))
    /\ ret' = Call("iter", <<>>, Outcome("", Len(iters) + 1, World), primes)
    /\ UNCHANGED <<primes, seq, potencias>>

\* next(it) of the j-th iterator, of outcome r
SharedResume(j, r) ==
    /\ primes' = r.W.primes
    /\ seq' = r.W.seq
    /\ potencias' = r.W.potencias
    /\ iters' = [iters EXCEPT ![j] = r.val.frame]
    /\ ret' = Call("iternext", <<j>>, Outcome(r.err, r.val.val, r.W), primes)

SharedIterNext ==
    \E j \in 1..Len(iters) :
        /\ iters[j].n <= MaxIterPos
        /\ SharedResume(j, LazyIterNext(World, "primes", iters[j]))

SharedNext ==
    /\ Size(primes) <= MaxIterPos
    /\ Do("primes", "next", <<>>, LazyNext(World, "primes"))

SharedAt ==
    \E i \in 0..MaxIterPos :
        Do("primes", "at", <<i>>, GetItemInt(World, "primes", i))

SharedIndex ==
    \E x \in 0..MaxIterVal :
        Do("primes", "index", <<x>>, index(World, "primes", x))

SharedContains ==
    \E n \in 0..MaxIterVal :
        Do("primes", "contains", <<n>>, PrimesContains(World, n))

NextIter ==
    \/ SharedOpen
    \/ SharedIterNext
    \/ SharedNext
    \/ SharedAt
    \/ SharedIndex
    \/ SharedContains

SpecIter == InitIter /\ [][NextIter]_vars

(***************************************************************************)
(* The program that uses potencias (and primes only through it).           *)
(***************************************************************************)
InitPot ==
    /\ primes = PrimesInit
    /\ seq = SeqInit(<<>>, TRUE)
    /\ potencias = PotInit
    /\ ret = NoCall
    /\ iters = <<>>

PotNext == Do("potencias", "next", <<>>, LazyNext(World, "potencias"))

PotAt ==
    \E i \in (0 - 2)..MaxPotIdx :
        Do("potencias", "at", <<i>>, GetItemInt(World, "potencias", i))

PotInsertPos ==
    \E x \in 0..MaxPotVal :
        Do("potencias", "insertpos", <<x>>, insertpos(World, "potencias", x))

PotIndex ==
    \E x \in 0..MaxPotVal :
        Do("potencias", "index", <<x>>, index(World, "potencias", x))

NextPot ==
    \/ (Size(potencias) <= MaxPotIdx /\ PotNext)
    \/ PotAt
    \/ PotInsertPos
    \/ PotIndex

SpecFD == InitPot /\ [][NextPot]_vars

(***************************************************************************)
(* The program that merges two iterators of its own with join and caches   *)
(* the result: here the slot of potencias holds                            *)
(* LazySortedSequence(join(s1, s2)), whose one frame holds the x and y of  *)
(* join and the two iterators, both endless and non-decreasing.            *)
(***************************************************************************)
MaxJoin == 6       \* values taken from a join

\* the value an iterator of the caller gives next
StreamVal(it) ==
    IF it.pos < Len(it.pre)
    THEN Nth(it.pre, it.pos)
    ELSE TailBase(it) + (it.pos - Len(it.pre))

\* next(s1), next(s2)
JoinS1Next(W) ==
    Outcome("", StreamVal(W.potencias.it[1].s1),
            [W EXCEPT !.potencias.it[1].s1.pos = @ + 1])

JoinS2Next(W) ==
    Outcome("", StreamVal(W.potencias.it[1].s2),
            [W EXCEPT !.potencias.it[1].s2.pos = @ + 1])

\* join resumed: x is read at its start and after a yield of x
JoinReadX(W) ==
    IF W.potencias.it[1].pc = "yy"
    THEN Outcome("", 0, W)
    ELSE JoinX(JoinS1Next(W), 1)

\* mutant: after a yield of x that was equal to y, y is read again as well
JoinReadYDropTie(a) ==
    IF a.W.potencias.it[1].pc = "yx" /\ a.W.potencias.it[1].y # Last(a.W.potencias)
    THEN a
    ELSE JoinY(JoinS2Next(a.W), 1)

\* join resumed: y is read at its start and after a yield of y
JoinReadY(a) ==
    IF a.W.potencias.it[1].pc = "yx"
    THEN a
    ELSE JoinY(JoinS2Next(a.W), 1)

\* next() of the generator join(s1, s2)
JoinNext(W) == JoinYield(JoinReadY(JoinReadX(W)), 1)

JoinFrame(a, b) ==
    [pc |-> "start", x |-> 0, y |-> 0,
     s1 |-> [pre |-> a, inf |-> TRUE, pos |-> 0],
     s2 |-> [pre |-> b, inf |-> TRUE, pos |-> 0]]

InitJoin ==
    /\ primes = PrimesInit
    /\ seq = SeqInit(<<>>, TRUE)
    /\ \E a \in Prefixes, b \in Prefixes :
          potencias = [cache |-> <<>>, it |-> <<JoinFrame(a, b)>>]
    /\ ret = NoCall
    /\ iters = <<>>

\* __next__ of the sequence over the join
JoinPull ==
    /\ Size(potencias) < MaxJoin
    /\ Do("potencias", "next", <<>>, CacheAppend(JoinNext(World), "potencias"))

NextJoin == JoinPull

SpecJoin == InitJoin /\ [][NextJoin]_vars

(***************************************************************************)
(* The program that uses a LazySortedSequence over its own iterator: an    *)
(* endless one (Spec) or one that ends (SpecFinite).  A slice whose range  *)
(* reaches INFINITE never returns over an endless iterator (it forces      *)
(* sys.maxsize values): such calls are not steps of Spec.                  *)
(***************************************************************************)
InitSeq(inf) ==
    /\ primes = PrimesInit
    /\ \E pre \in Prefixes : seq = SeqInit(pre, inf)
    /\ potencias = PotInit
    /\ ret = NoCall
    /\ iters = <<>>

Init == InitSeq(TRUE)

InitFinite == InitSeq(FALSE)

SeqNext == Do("seq", "next", <<>>, LazyNext(World, "seq"))

SeqAt ==
    \E i \in (0 - 2)..MaxIdx :
        Do("seq", "at", <<i>>, GetItemInt(World, "seq", i))

SliceArgs == {NoneArg} \cup { <<v>> : v \in (0 - 2)..MaxIdx }

SliceReturns(a, b) ==
    \/ ~seq.it.inf
    \/ SliceStart(a) >= SliceStop(b)
    \/ SliceStop(b) <= MaxIdx + 1

SeqSlice ==
    \E a \in SliceArgs, b \in SliceArgs, c \in {NoneArg, <<2>>} :
        /\ SliceReturns(a, b)
        /\ Do("seq", "slice", <<a, b, c>>, GetItemSlice(World, "seq", a, b, c))

SeqInsertPos ==
    \E x \in 0..MaxVal :
        Do("seq", "insertpos", <<x>>, insertpos(World, "seq", x))

SeqContains ==
    \E x \in 0..MaxVal :
        Do("seq", "contains", <<x>>, SortedContains(World, "seq", x))

SeqIndex ==
    \E x \in 0..MaxVal :
        Do("seq", "index", <<x>>, index(World, "seq", x))

\* for v in seq, left after m values (no other call in between)
SeqIterate ==
    \E m \in 1..(MaxIdx + 1) :
        Do("seq", "iterate", <<m>>,
           IterTake(World, "seq", NewIter(World, "seq"), m, <<>>))

Next ==
    \/ (Size(seq) <= MaxIdx /\ SeqNext)
    \/ SeqAt
    \/ SeqSlice
    \/ SeqInsertPos
    \/ SeqContains
    \/ SeqIndex
    \/ SeqIterate

Spec == Init /\ [][Next]_vars

SpecFinite == InitFinite /\ [][Next]_vars

(***************************************************************************)
(* Properties.  What the statements call "the sequence" is defined here    *)
(* from scratch: primality by division, the Fermi-Dirac numbers by their   *)
(* definition, the values of the caller's iterator by their position.      *)
(***************************************************************************)
Max(a, b) == IF a >= b THEN a ELSE b

IsPrimeNumber(n) == n >= 2 /\ \A d \in 2..(n - 1) : n % d # 0

NoDivisorUpToRoot(n) == \A d \in 2..n : d * d <= n => n % d # 0

RECURSIVE IsFermiDirac(_)
IsFermiDirac(n) ==
    \/ IsPrimeNumber(n)
    \/ \E r \in 2..(n - 1) : r * r = n /\ IsFermiDirac(r)

\* the value at Python index i of the caller's iterator
SeqVal(i) ==
    IF i < Len(seq.it.pre)
    THEN Nth(seq.it.pre, i)
    ELSE TailBase(seq.it) + (i - Len(seq.it.pre))

Present(x) == \E i \in 0..(Len(seq.it.pre) + x) : SeqVal(i) = x

\* the leftmost index of the whole sequence whose value is >= x
LeftmostIndex(x) ==
    CHOOSE i \in 0..(Len(seq.it.pre) + x) :
        SeqVal(i) >= x /\ \A j \in 0..(i - 1) : SeqVal(j) < x

StrictlyIncreasing == \A i \in 0..(Len(seq.it.pre) - 2) : SeqVal(i) < SeqVal(i + 1)

\* next() calls answered by the caller's iterator during the last call
Pulls == seq.it.pos - ret.pre.it.pos

\* the heap before the last call on seq
WorldBefore == [World EXCEPT !.seq = ret.pre]

\* C1: for every n >= 2 and every cache state of primes, primes.contains(n)
\* is true exactly when n has no divisor in [2, floor(sqrt(n))].
C1_IsPrimeIsTrialDivision ==
    (ret.op = "contains" /\ ret.args[1] >= 2) =>
        (ret.err = "" /\ ret.val = NoDivisorUpToRoot(ret.args[1]))

\* C2: after any sequence of operations the cache of primes is exactly the
\* first size() primes: every element is prime, they increase strictly, no
\* prime below the last one is skipped; primes.at(i) returns the i-th of them.
C2_CacheIsFirstPrimes ==
    LET c == primes.cache
    IN  /\ \A i \in 1..Len(c) : IsPrimeNumber(c[i])
        /\ \A i \in 1..(Len(c) - 1) : c[i] < c[i + 1]
        /\ \A m \in 2..c[Len(c)] : IsPrimeNumber(m) => \E i \in 1..Len(c) : c[i] = m
        /\ (ret.op = "at" /\ ret.args[1] >= 0) =>
              /\ ret.err = ""
              /\ ret.val = Nth(c, ret.args[1])
              /\ Cardinality({ m \in 2..(ret.val - 1) : IsPrimeNumber(m) }) = ret.args[1]

\* the sieve has gone through three segments (9, 25, 49) by an at()
C2_Witness ==
    /\ ret.op = "at"
    /\ ret.err = ""
    /\ primes.it.pc = "yield"
    /\ primes.it.top >= 4
    /\ Len(ret.pre.cache) = 2

\* C3: potencias.at(i) is the (i+1)-th smallest number p^(2^k): the cache
\* increases strictly, holds only such numbers and omits none below its last
\* element; its first 14 elements are 2,3,4,5,7,9,11,13,16,17,19,23,25,29.
First14 == <<2, 3, 4, 5, 7, 9, 11, 13, 16, 17, 19, 23, 25, 29>>

C3_FermiDiracInOrder ==
    LET c == potencias.cache
    IN  /\ \A i \in 1..Len(c) : IsFermiDirac(c[i])
        /\ \A i \in 1..(Len(c) - 1) : c[i] < c[i + 1]
        /\ Len(c) > 0 =>
              \A m \in 2..c[Len(c)] : IsFermiDirac(m) => \E i \in 1..Len(c) : c[i] = m
        /\ \A i \in 1..Len(c) : i <= Len(First14) => c[i] = First14[i]
        /\ (ret.op = "at" /\ ret.args[1] >= 0) =>
              /\ ret.err = ""
              /\ ret.val = Nth(c, ret.args[1])
              /\ Cardinality({ m \in 2..(ret.val - 1) : IsFermiDirac(m) }) = ret.args[1]

\* 14 values and more are cached, from three levels at least (16 is 2^(2^2))
C3_Witness ==
    /\ ret.op = "at"
    /\ ret.err = ""
    /\ Size(potencias) > Len(First14)
    /\ Len(potencias.it) >= 3
    /\ Len(ret.pre.cache) < Len(First14)

\* C4: at(index), index >= 0: if index < size no value is pulled and size is
\* unchanged; otherwise exactly index - size + 1 values are pulled and size
\* becomes index + 1.  The value returned is the one at that index.
C4_AtForcesExactly ==
    (ret.op = "at" /\ ret.args[1] >= 0) =>
        LET i == ret.args[1]
            n0 == Len(ret.pre.cache)
        IN  /\ ret.err = ""
            /\ ret.val = SeqVal(i)
            /\ IF i < n0
               THEN Pulls = 0 /\ Size(seq) = n0
               ELSE Pulls = i - n0 + 1 /\ Size(seq) = i + 1

C4_Witness ==
    /\ ret.op = "at"
    /\ Len(ret.pre.cache) > 0
    /\ ret.args[1] > Len(ret.pre.cache)

\* C5: over a non-decreasing iterator, insertpos(x) returns the leftmost
\* index whose value is >= x (all the values before it are < x), and from
\* every cache state it returns that same index.
C5_InsertPosLeftmost ==
    /\ ret.op = "insertpos" =>
          /\ ret.err = ""
          /\ ret.val < Size(seq)
          /\ Nth(seq.cache, ret.val) >= ret.args[1]
          /\ \A j \in 0..(ret.val - 1) : Nth(seq.cache, j) < ret.args[1]
    /\ \A x \in 0..MaxVal :
          /\ insertpos(World, "seq", x).err = ""
          /\ insertpos(World, "seq", x).val = LeftmostIndex(x)

\* found by bisection among equal cached values, the first of which is taken
C5_Witness ==
    /\ ret.op = "insertpos"
    /\ seq = ret.pre
    /\ ret.val + 2 < Size(seq)
    /\ Nth(seq.cache, ret.val) = ret.args[1]
    /\ Nth(seq.cache, ret.val + 1) = ret.args[1]

\* C6: over a strictly increasing sequence, find(at(i)) = i for every i and
\* at(find(x)) = x for every x of the sequence, whatever is cached before
\* either call.
C6_FindAtInverse ==
    StrictlyIncreasing =>
        /\ \A i \in 0..MaxIdx :
              /\ GetItemInt(World, "seq", i).val = SeqVal(i)
              /\ index(World, "seq", SeqVal(i)).err = ""
              /\ index(World, "seq", SeqVal(i)).val = i
              /\ index(GetItemInt(World, "seq", i).W, "seq", SeqVal(i)).err = ""
              /\ index(GetItemInt(World, "seq", i).W, "seq", SeqVal(i)).val = i
        /\ \A x \in 0..MaxVal :
              Present(x) =>
                  /\ index(World, "seq", x).err = ""
                  /\ GetItemInt(index(World, "seq", x).W, "seq",
                                index(World, "seq", x).val).err = ""
                  /\ GetItemInt(index(World, "seq", x).W, "seq",
                                index(World, "seq", x).val).val = x
        /\ (ret.op = "index" /\ ret.err = "") => Nth(seq.cache, ret.val) = ret.args[1]

\* a find that had to force, in a sequence with a gap, part of it cached
C6_Witness ==
    /\ StrictlyIncreasing
    /\ ret.op = "index"
    /\ ret.err = ""
    /\ Len(ret.pre.cache) > 0
    /\ ret.val > Len(ret.pre.cache)
    /\ \E i \in 0..(Len(seq.it.pre) - 2) : SeqVal(i) + 1 < SeqVal(i + 1)

\* C7: find(x) for an x that is not in the sequence (and is below some
\* element of it) fails with the not-found error, which carries x and the
\* name of the class of the sequence; no index is returned.
C7_FindAbsentRaises ==
    (ret.op = "index" /\ ~Present(ret.args[1])) =>
        /\ ret.err = "ValueError"
        /\ ret.val = <<ret.args[1], "LazySortedSequence">>

\* the absent value was looked for by forcing
C7_Witness ==
    /\ ret.op = "index"
    /\ ~Present(ret.args[1])
    /\ Size(seq) > Len(ret.pre.cache)
    /\ Len(ret.pre.cache) > 0

C9_NegativeSliceFails ==
    (/\ ret.op = "slice"
     /\ \/ (ret.args[1] # NoneArg /\ ret.args[1][1] < 0)
        \/ (ret.args[2] # NoneArg /\ ret.args[2][1] < 0)) =>
        (ret.err # "" /\ seq = ret.pre)

\* the slices slice(a, b) of C10: 0 <= a <= b, step left out
PlainSlice ==
    /\ ret.op = "slice"
    /\ ret.args[1] # NoneArg
    /\ ret.args[2] # NoneArg
    /\ ret.args[3] = NoneArg
    /\ 0 <= ret.args[1][1]
    /\ ret.args[1][1] <= ret.args[2][1]

SliceIsListOfAts ==
    LET a == ret.args[1][1]
        b == ret.args[2][1]
    IN  /\ ret.err = ""
        /\ Len(ret.val) = b - a
        /\ \A k \in 1..(b - a) :
              /\ ret.val[k] = GetItemInt(World, "seq", a + k - 1).val
              /\ ret.val[k] = GetItemInt(WorldBefore, "seq", a + k - 1).val

\* C10 as stated: for 0 <= a <= b, slice(a, b) = [at(a), ..., at(b-1)] and
\* afterwards size = max(previous size, b).
C10_SliceSizeIsMax ==
    PlainSlice =>
        /\ SliceIsListOfAts
        /\ Size(seq) = Max(Len(ret.pre.cache), ret.args[2][1])

\* C10 amended: for 0 <= a <= b, slice(a, b) = [at(a), ..., at(b-1)];
\* afterwards size = max(previous size, b) when a < b, and size is unchanged
\* (nothing is forced) when a = b.
C10_SliceEqualsAts ==
    PlainSlice =>
        /\ SliceIsListOfAts
        /\ Size(seq) = IF ret.args[1][1] < ret.args[2][1]
                       THEN Max(Len(ret.pre.cache), ret.args[2][1])
                       ELSE Len(ret.pre.cache)

\* a slice that starts in the cached part and ends beyond it
C10_Witness ==
    /\ PlainSlice
    /\ ret.args[1][1] < Len(ret.pre.cache)
    /\ Len(ret.pre.cache) < ret.args[2][1]
    /\ ret.args[1][1] > 0

\* the second of two calls at(k), given the outcome a of the first
SecondAt(a, k) == GetItemInt(a.W, "seq", k)

\* C11: at is idempotent: at(k) called twice with the same k returns the same
\* value both times, and the second call does not change size() (it takes
\* nothing from the iterator).
C11_AtIdempotent ==
    \A k \in 0..MaxIdx :
        /\ GetItemInt(World, "seq", k).err = ""
        /\ SecondAt(GetItemInt(World, "seq", k), k).err = ""
        /\ SecondAt(GetItemInt(World, "seq", k), k).val
              = GetItemInt(World, "seq", k).val
        /\ SecondAt(GetItemInt(World, "seq", k), k).W
              = GetItemInt(World, "seq", k).W

\* part of the indices is cached and the first at(MaxIdx) has to force
C11_Witness ==
    /\ ret.op = "at"
    /\ ret.err = ""
    /\ Size(seq) > Len(ret.pre.cache)
    /\ Size(seq) <= MaxIdx

IsPrefix(c, d) == Len(c) <= Len(d) /\ \A i \in 1..Len(c) : c[i] = d[i]

\* C12: across any sequence of operations (pullNext, at, slice, iterate,
\* insertionPoint, contains, find) the cache is append-only: size() never
\* decreases and, once cache[i] is set, its value never changes and stays the
\* i-th value of the sequence.
C12_CacheAppendOnly ==
    /\ [](\A i \in 1..Len(seq.cache) : seq.cache[i] = SeqVal(i - 1))
    /\ [][IsPrefix(seq.cache, seq'.cache)]_vars

\* an iteration that replayed a cached part and then forced new values
C12_Witness ==
    /\ ret.op = "iterate"
    /\ ret.err = ""
    /\ Len(ret.pre.cache) > 0
    /\ Size(seq) > Len(ret.pre.cache)
    /\ ret.val = seq.cache

\* C13: pullNext on a sequence whose producer is exhausted fails with
\* StopIteration (the exhaustion error) and leaves the cache unchanged.
C13_ExhaustedNextRaises ==
    (ret.op = "next" /\ ~ret.pre.it.inf /\ ret.pre.it.pos >= Len(ret.pre.it.pre)) =>
        /\ ret.err = "StopIteration"
        /\ seq = ret.pre

\* next() after the iterator gave its three values, all of them cached
C13_Witness ==
    /\ ret.op = "next"
    /\ ret.err = "StopIteration"
    /\ Size(seq) = MaxLen
    /\ Len(seq.it.pre) = MaxLen

\* C14: insertionPoint(x) leaves the cache unchanged when the cache is not
\* empty and x <= last(); otherwise it pulls one value at a time and stops at
\* the first forced value >= x, so that afterwards size = result + 1,
\* last() >= x and every earlier element is < x.
C14_InsertPosForcesToFirstGE ==
    ret.op = "insertpos" =>
        /\ ret.err = ""
        /\ IF Len(ret.pre.cache) > 0 /\ ret.args[1] <= Last(ret.pre)
           THEN seq = ret.pre
           ELSE /\ Size(seq) > Len(ret.pre.cache)
                /\ Pulls = Size(seq) - Len(ret.pre.cache)
                /\ Size(seq) = ret.val + 1
                /\ Last(seq) >= ret.args[1]
                /\ \A j \in 0..(ret.val - 1) : Nth(seq.cache, j) < ret.args[1]

\* several values were forced past a cached part, the last of them equal to x
C14_Witness ==
    /\ ret.op = "insertpos"
    /\ Len(ret.pre.cache) > 0
    /\ Size(seq) >= Len(ret.pre.cache) + 2
    /\ Last(seq) = ret.args[1]

\* the first candidate of the segment whose cursor is top
SegmentStart(c, top) == IF top = 1 THEN 5 ELSE Nth(c, top - 1) * Nth(c, top - 1) + 2

\* C15: whenever the sieve starts a segment with cursor top, cache[top] is
\* present (top < size) and every odd prime smaller than cache[top] is in the
\* window cache[1..top) of the divisors, so every candidate of
\* [start, cache[top]^2) is classified correctly; this holds however the
\* generator is driven (next, at, insertpos, index, iteration).
C15_SegmentDivisorsPresent ==
    /\ ret.err # "IndexError"
    /\ primes.it.top < Size(primes)
    /\ primes.it.pc = "yield" =>
          /\ primes.it.top + 1 < Size(primes)
          /\ primes.it.stop = Nth(primes.cache, primes.it.top) * Nth(primes.cache, primes.it.top)
          /\ \A m \in 3..(Nth(primes.cache, primes.it.top) - 1) :
                IsPrimeNumber(m) =>
                    \E j \in 1..(primes.it.top - 1) : Nth(primes.cache, j) = m
          /\ \A m \in SegmentStart(primes.cache, primes.it.top)..(primes.it.stop - 1) :
                m % 2 = 1 =>
                    (HasDivisor(primes.cache, primes.it.top, m) <=> ~IsPrimeNumber(m))

\* the fourth segment (51..119, divisors 3, 5, 7) was started by an iteration
C15_Witness ==
    /\ ret.op = "iterate"
    /\ ret.err = ""
    /\ primes.it.pc = "yield"
    /\ primes.it.top = 4
    /\ ret.pre.it.top < 4

\* the value at Python index i of an iterator given to join
StreamAt(it, i) == StreamVal([it EXCEPT !.pos = i])

\* how many of the first k values of the iterator are v
StreamCount(it, k, v) == Cardinality({ i \in 0..(k - 1) : StreamAt(it, i) = v })

ListCount(c, v) == Cardinality({ i \in 1..Len(c) : c[i] = v })

\* the values of s1 and of s2 that join has yielded: all it has read, but
\* the one it holds in x or in y
YieldedOfS1 ==
    IF potencias.it[1].pc = "yy"
    THEN potencias.it[1].s1.pos - 1 ELSE potencias.it[1].s1.pos

YieldedOfS2 ==
    IF potencias.it[1].pc = "yx"
    THEN potencias.it[1].s2.pos - 1 ELSE potencias.it[1].s2.pos

\* C16: join(s1, s2) of two endless non-decreasing iterators yields a
\* non-decreasing sequence in which every value of s1 and of s2 appears as
\* many times as in the inputs: what has been yielded is at every moment the
\* merge of a prefix of s1 and a prefix of s2, and nothing that remains is
\* smaller than the last value yielded.  When x = y, x is yielded and only
\* s1 advances; the equal y is kept and yielded by a later pull.
C16_JoinMergesWithTies ==
    /\ \A i \in 1..(Size(potencias) - 1) : potencias.cache[i] <= potencias.cache[i + 1]
    /\ Size(potencias) = YieldedOfS1 + YieldedOfS2
    /\ \A v \in 0..(MaxPre + MaxJoin + 1) :
          ListCount(potencias.cache, v)
              = StreamCount(potencias.it[1].s1, YieldedOfS1, v)
                  + StreamCount(potencias.it[1].s2, YieldedOfS2, v)
    /\ Size(potencias) > 0 =>
          /\ StreamAt(potencias.it[1].s1, YieldedOfS1) >= Last(potencias)
          /\ StreamAt(potencias.it[1].s2, YieldedOfS2) >= Last(potencias)
    /\ potencias.it[1].pc = "yx" =>
          /\ potencias.it[1].x <= potencias.it[1].y
          /\ Last(potencias) = potencias.it[1].x
          /\ potencias.it[1].y = StreamAt(potencias.it[1].s2, YieldedOfS2)
    /\ potencias.it[1].pc = "yy" =>
          /\ potencias.it[1].y < potencias.it[1].x
          /\ Last(potencias) = potencias.it[1].y
          /\ potencias.it[1].x = StreamAt(potencias.it[1].s1, YieldedOfS1)

\* a value that s1 holds twice and s2 once has been yielded three times, the
\* last of them from s2
C16_Witness ==
    /\ potencias.it[1].pc = "yy"
    /\ StreamCount(potencias.it[1].s1, YieldedOfS1, Last(potencias)) = 2
    /\ StreamCount(potencias.it[1].s2, YieldedOfS2, Last(potencias)) = 1
    /\ ListCount(potencias.cache, Last(potencias)) = 3

\* the levels that a call, of outcome r, has instantiated
NewLevels(r) == Len(r.W.potencias.it) - Len(potencias.it)

\* C17: every pull from flat(mkiter(k) for k in count()) returns (after
\* finitely many steps) and instantiates at most one mkiter(k) that was not
\* instantiated before, so that after n pulls at most n levels exist.
C17_OneLevelPerPull ==
    /\ Len(potencias.it) <= Size(potencias)
    /\ LazyNext(World, "potencias").err = ""
    /\ NewLevels(LazyNext(World, "potencias")) \in {0, 1}
    /\ ret.op = "next" =>
          /\ ret.err = ""
          /\ Len(potencias.it) - Len(ret.pre.it) \in {0, 1}
    /\ ret.op # "init" =>
          Len(potencias.it) - Len(ret.pre.it) <= Size(potencias) - Len(ret.pre.cache)

\* one pull went down two levels and instantiated the third (mkiter(2))
C17_Witness ==
    /\ ret.op = "next"
    /\ Len(ret.pre.it) = 2
    /\ Len(potencias.it) = 3
    /\ Size(potencias) > 3

\* C18: any number of iterators opened on one shared sequence, advanced in
\* any interleaving with each other and with at, index, contains and next
\* calls on it, each yield the cache positions 0, 1, 2, ... in order, none
\* skipped or repeated, also when the cache grows while an iterator is still
\* in the cached part: the n-th value an iterator yields is cache[n - 1], and
\* the position it will yield next is the number of values it has yielded.
C18_IteratorsYieldPositionsInOrder ==
    /\ \A j \in 1..Len(iters) :
          /\ iters[j].i = iters[j].n
          /\ iters[j].n <= Size(primes)
    /\ ret.op = "iternext" =>
          /\ ret.err = ""
          /\ ret.val = Nth(primes.cache, iters[ret.args[1]].n - 1)

\* an iterator still in the cached part yields a value appended after it was
\* opened, forced meanwhile by the other iterator
C18_Witness ==
    /\ ret.op = "iternext"
    /\ Len(iters) = 2
    /\ \E j \in 1..2 :
          /\ ret.args[1] = j
          /\ iters[j].ph = 1
          /\ iters[j].n > iters[j].open
          /\ iters[3 - j].ph = 2
          /\ iters[3 - j].n >= iters[j].n

\* C19: primes.contains(n) is a pure query: for every n and every cache
\* state it leaves the cache unchanged (size() and last() are the same before
\* and after; n is never appended and the generator is never advanced).
C19_ContainsIsPure ==
    /\ ret.op = "contains" => (ret.err = "" /\ primes = ret.pre)
    /\ \A n \in 0..MaxN :
          /\ PrimesContains(World, n).err = ""
          /\ PrimesContains(World, n).W = World

\* contains(n) with isqrt(n) beyond the last cached prime, after the cache grew
C19_Witness ==
    /\ ret.op = "contains"
    /\ isqrt(ret.args[1]) > Last(primes)
    /\ Size(primes) > 2
    /\ primes = ret.pre

\* the smallest prime greater than n
RECURSIVE NextPrimeAfter(_)
NextPrimeAfter(n) == IF IsPrimeNumber(n + 1) THEN n + 1 ELSE NextPrimeAfter(n + 1)

\* C20: when primes is forced only through potencias, after any sequence of
\* calls on potencias that leaves its cache not empty, primes.last is at most
\* the smallest prime greater than potencias.last: the merge reads ahead by
\* at most one prime.
C20_PrimesOneAhead ==
    Size(potencias) > 0 => Last(primes) <= NextPrimeAfter(Last(potencias))

\* the generator of primes has been advanced, and is one prime ahead
C20_Witness ==
    /\ Size(potencias) > 0
    /\ Size(primes) > 4
    /\ Last(primes) = NextPrimeAfter(Last(potencias))
    /\ ret.op = "index"

====
